---- MODULE Spec2Model ----
(***************************************************************************)
(* Model of the AgroFlow data-synchronisation hook (useAgroFlowData) and   *)
(* of the remote stores it talks to.  Every callback and every            *)
(* continuation of an async function is one atomic action: JavaScript     *)
(* runs each of them to completion on a single thread.                    *)
(***************************************************************************)
EXTENDS Integers, Sequences, FiniteSets, TLC

\* ------------------------------------------------------------------ bounds
MaxTime == 2        \* the clock runs 1..MaxTime
MaxReading == 2     \* distinct live readings the device can publish
MaxRefresh == 2     \* refreshData invocations that can be in flight together
MaxDocs == 2        \* documents in sensor_readings in the hook specification
MaxLog == 3         \* entries in irrigation_log in the hook specification
HistDocs == 50      \* documents in sensor_readings in the history specification
LogDocs == 32       \* children of irrigation_log in the event specification
MaxTemp == 30       \* temperatures run over -MaxTemp..MaxTemp tenths of a degree
MaxMoisture == 100  \* moisture values run over 0..MaxMoisture
MaxSignal == 80     \* signal values run over -MaxSignal..1 dBm

\* ------------------------------------------------------- program constants
HistoryLimit == 48
EventLimit == 20
ChartLimit == 24

\* ------------------------------------------------------------------ values
\* A nullable value of the program is the empty sequence (null) or a
\* one-element sequence holding the value.
NULL == <<>>

Some(v) == <<v>>

Min(a, b) == IF a <= b THEN a ELSE b

Take(s, n) == SubSeq(s, 1, Min(n, Len(s)))

DefaultDevice == "AF001"

\* A second device, for callers that hand the hook another deviceId
OtherDevice == "AF002"

Devices == {DefaultDevice, OtherDevice}

\* LiveData objects published at live_monitoring/{deviceId}
LiveValues ==
    { [timestamp |-> i, pump_active |-> (i % 2 = 0)] : i \in 1..MaxReading }

\* DeviceStatus objects published at device_status/{deviceId}
StatusValues == { [online |-> TRUE], [online |-> FALSE] }

\* The four messages the hook can store in its error field
ErrHistory == "Failed to fetch historical data"
ErrEvents == "Failed to fetch irrigation events"
ErrRealtime == "Real-time connection failed"
ErrRefresh == "Failed to refresh data"

VARIABLES
    \* the hook's React state
    currentData, historicalData, irrigationEvents, deviceStatus,
    loading, error, connected, lastUpdate,
    \* the hook's refs, and the timers that setInterval started and
    \* clearInterval has not stopped, each named by the deviceId its
    \* callback closes over
    liveDataRef, deviceStatusRef, interval,
    \* the remote stores and the listeners registered with the realtime store
    sensor_readings, irrigation_log, listeners,
    \* the time of the latest reading the store holds at each device's
    \* live_monitoring path (0: none)
    published,
    \* the async functions in flight
    refresh, fetch,
    \* the environment and the bookkeeping of the properties
    now, thrown, last,
    \* the deviceId the hook was last rendered with and where it is in its
    \* life: "rendered", "mounted" or "unmounted"
    deviceId, lifecycle,
    \* the view's in-flight flag and the pump commands the remote received
    pumpControlLoading, commands

hookState == <<currentData, historicalData, irrigationEvents, deviceStatus,
               loading, error, connected, lastUpdate>>

refs == <<liveDataRef, deviceStatusRef, interval>>

remote == <<sensor_readings, irrigation_log, published>>

life == <<deviceId, lifecycle>>

view == <<pumpControlLoading, commands>>

vars == <<hookState, refs, remote, listeners, refresh, fetch, now, thrown, last,
          life, view>>

\* --------------------------------------------------- the realtime store
\* ref(database, `${name}/${deviceId}`)
Path(name, device) == <<name, device>>

\* The two functions of a subscription: the callback handed to onValue and
\* the unsubscribe function onValue returns.  They are different objects.
Callback(name, device) == [fn |-> "callback", path |-> Path(name, device)]

Unsubscribe(name, device) == [fn |-> "unsubscribe", path |-> Path(name, device)]

\* onValue(path, callback): the store registers the callback at the path
onValue(registered, name, device) ==
    registered \cup {[path |-> Path(name, device), callback |-> Callback(name, device)]}

\* off(path, 'value', fn): the store drops the listeners of the path whose
\* callback is fn
off(registered, path, fn) ==
    { l \in registered : ~(l.path = path /\ l.callback = fn) }

\* A listener of this name is registered at the path of device
ListensAt(name, device) ==
    \E l \in listeners : l.path = Path(name, device)

\* The callback of the subscription of the current deviceId can run and
\* its state updates apply: the component is mounted
Subscribed(name) == lifecycle = "mounted" /\ ListensAt(name, deviceId)

\* ------------------------------------------------------ the document store
\* A document of the sensor_readings collection: whether doc.data() and the
\* field reads succeed, and the fields the document holds (NULL: absent).
\* Strings that stand for times are numbered; 0 is the empty string.
FirestoreDoc(dec, dev, ts, temp, pump, state, reason) ==
    [decodable |-> dec,
     fields |-> [device_id |-> dev, timestamp |-> ts, air_temperature |-> temp,
                 pump_active |-> pump, pump_state |-> state,
                 irrigation_reason |-> reason]]

\* JavaScript's (x || d) on an optional string, number, boolean
OrString(x, d) == IF x = NULL \/ x[1] = "" THEN d ELSE x[1]

OrNumber(x, d) == IF x = NULL \/ x[1] = 0 THEN d ELSE x[1]

OrBoolean(x, d) == IF x = NULL \/ x[1] = FALSE THEN d ELSE x[1]

\* convertFirestoreDoc: the decoded reading, or NULL when decoding throws
convertFirestoreDoc(doc, device) ==
    IF ~doc.decodable THEN NULL
    ELSE Some([device_id |-> OrString(doc.fields.device_id, device),
               timestamp |-> OrNumber(doc.fields.timestamp, 0),
               air_temperature |-> OrNumber(doc.fields.air_temperature, 0),
               pump_active |-> OrBoolean(doc.fields.pump_active, FALSE),
               pump_state |-> OrString(doc.fields.pump_state, "OFF"),
               irrigation_reason |-> OrString(doc.fields.irrigation_reason, "")])

\* The query with its limit off by one
HistoryQueryOneMore(collection) == Take(collection, HistoryLimit + 1)

\* The query of fetchHistoricalData: the collection is kept in the order of
\* the query (timestamp descending, all devices), limit(48) cuts it.
HistoryQuery(collection) == Take(collection, HistoryLimit)

\* The loop giving up at the first document that fails to decode
DecodeAllStopsAtFailure(docs, device) ==
    LET failed == { i \in 1..Len(docs) : ~docs[i].decodable }
        upto == IF failed = {} THEN Len(docs)
                ELSE (CHOOSE i \in failed : \A j \in failed : i <= j) - 1
    IN  [i \in 1..upto |-> convertFirestoreDoc(docs[i], device)[1]]

RECURSIVE DecodeAll(_, _)
\* querySnapshot.forEach: push every reading that decoded
DecodeAll(docs, device) ==
    IF docs = <<>> THEN <<>>
    ELSE LET r == convertFirestoreDoc(Head(docs), device)
         IN  r \o DecodeAll(Tail(docs), device)

\* The readings fetchHistoricalData hands to setHistoricalData
HistoricalReadings(collection, device) ==
    DecodeAll(HistoryQuery(collection), device)

\* ------------------------------------------------------- the irrigation log
\* A child of irrigation_log/{deviceId}: an object (an event) or a
\* primitive.  timestamp numbers a date string.
LogEntry(kind, key, ts) == [kind |-> kind, key |-> key, timestamp |-> ts]

\* new Date(s).getTime(): two spellings of a date denote the same instant
DateGetTime(s) == s \div 2

\* typeof data === 'object' && data !== null
IsObject(data) == data.kind = "object"

\* snapshot.forEach with the typeof filter
ObjectEntries(log) == SelectSeq(log, IsObject)

\* The log at irrigation_log/{device}: the variable is the log of the
\* default device, another device has a log of one event of its own
LogOf(device) ==
    IF device = DefaultDevice THEN irrigation_log
    ELSE <<LogEntry("object", 101, 4)>>

\* The comparator with its operands exchanged: oldest first
CompareEventsAscending(a, b) == DateGetTime(a.timestamp) - DateGetTime(b.timestamp)

\* The comparator handed to events.sort
CompareEvents(a, b) == DateGetTime(b.timestamp) - DateGetTime(a.timestamp)

\* Array.prototype.sort is stable: a goes before b when the comparator puts it
\* first, or leaves the two equal and a was added first.
SortsBefore(events, i, j) ==
    \/ CompareEvents(events[i], events[j]) < 0
    \/ CompareEvents(events[i], events[j]) = 0 /\ i < j

\* events.sort(comparator): each element lands behind those sorting before it
SortEvents(events) ==
    LET n == Len(events)
        place == [i \in 1..n |->
                    1 + Cardinality({ j \in 1..n : SortsBefore(events, j, i) })]
    IN  [k \in 1..n |-> events[CHOOSE i \in 1..n : place[i] = k]]

\* events.slice(0, 20)
RecentEvents(events) == Take(events, EventLimit)

\* The sequence fetchIrrigationEvents hands to setIrrigationEvents
FetchedEvents(log) ==
    IF log # <<>> THEN RecentEvents(SortEvents(ObjectEntries(log))) ELSE <<>>

\* ------------------------------------------------------ remote contents
DocPatterns == 1..3

\* Document i of n, newest first: the documents are numbered by age, the
\* oldest is 1.  Pattern 1: every document complete; pattern 2: every third
\* document fails to decode; pattern 3: documents of another device,
\* documents with missing fields and documents that fail to decode are
\* mixed in.
PatternDoc(i, n, k) ==
    LET ts == n - i + 1
    IN  CASE k = 1 -> FirestoreDoc(TRUE, Some(DefaultDevice), Some(ts),
                                   Some(200 + ts), Some(ts % 2 = 0), Some("ON"),
                                   Some("dry"))
          [] k = 2 -> FirestoreDoc(ts % 3 # 1, Some(DefaultDevice), Some(ts),
                                   Some(200 + ts), Some(FALSE), Some("OFF"),
                                   Some("dry"))
          [] OTHER -> FirestoreDoc(ts % 4 # 3,
                                   IF ts % 3 = 0 THEN Some("AF002") ELSE NULL,
                                   Some(ts),
                                   IF ts % 2 = 0 THEN NULL ELSE Some(0),
                                   IF ts % 2 = 0 THEN NULL ELSE Some(TRUE),
                                   IF ts % 2 = 0 THEN NULL ELSE Some(""),
                                   IF ts % 2 = 0 THEN NULL ELSE Some("dry"))

Collection(n, k) == [i \in 1..n |-> PatternDoc(i, n, k)]

Collections(maxLen) == { Collection(n, k) : n \in 0..maxLen, k \in DocPatterns }

LogPatterns == 1..6

\* Child i of n of the log, in key order.  Patterns 1, 2: times ascending,
\* descending; 3: scrambled, with ties; 4: a single instant; 5: scrambled,
\* every third child a primitive; 6: ascending, every odd child a primitive.
PatternEntry(i, n, k) ==
    CASE k = 1 -> LogEntry("object", i, 2 * i)
      [] k = 2 -> LogEntry("object", i, 2 * (100 - i))
      [] k = 3 -> LogEntry("object", i, (i * 7) % 11)
      [] k = 4 -> LogEntry("object", i, i % 2)
      [] k = 5 -> LogEntry(IF i % 3 = 0 THEN "number" ELSE "object", i, (i * 5) % 13)
      [] OTHER -> LogEntry(IF i % 2 = 1 THEN "string" ELSE "object", i, 2 * i)

EventLog(n, k) == [i \in 1..n |-> PatternEntry(i, n, k)]

EventLogs(maxLen) == { EventLog(n, k) : n \in 0..maxLen, k \in LogPatterns }

\* ------------------------------------------------------------ bookkeeping
Owners == 0..MaxRefresh          \* 0: the auto-refresh timer

Invocations == 1..MaxRefresh     \* refreshData invocations

IdleRefresh ==
    [pc |-> "idle", h0 |-> <<>>, e0 |-> <<>>, conc |-> FALSE, clr |-> FALSE,
     hit |-> FALSE]

NoFetch == [hist |-> "none", events |-> "none", device |-> DefaultDevice]

Active(r) == r.pc \in {"fetching", "liveSnap", "statusSnap"}

Op(name, p, v) == [op |-> name, p |-> p, v |-> v]

\* refresh after a step that cleared the error field: every invocation in
\* flight, other than p, that has a failed fetch behind it notes it, and
\* none has a failure from outside left in the error field
NoteCleared(p) ==
    [q \in Invocations |->
        IF q # p /\ Active(refresh[q])
        THEN [refresh[q] EXCEPT
                !.clr = @ \/ fetch[q].hist = "fail" \/ fetch[q].events = "fail",
                !.hit = FALSE]
        ELSE refresh[q]]

\* refresh after a failure that owner o (0: a live subscription or the
\* timer) stored in the error field: every other invocation in flight
\* notes the failure from outside
NoteFailed(o) ==
    [q \in Invocations |->
        IF q # o /\ Active(refresh[q])
        THEN [refresh[q] EXCEPT !.hit = TRUE] ELSE refresh[q]]

\* refresh after owner o stored a fetched sequence: every other invocation
\* in flight notes the concurrent fetch
NoteFetched(o) ==
    [q \in Invocations |->
        IF q # o /\ Active(refresh[q])
        THEN [refresh[q] EXCEPT !.conc = TRUE] ELSE refresh[q]]

\* fetch after a fetch of owner o returned with outcome res: an invocation
\* keeps the outcome until it finishes, the timer awaits nothing
Returned(o, kind, res) ==
    [fetch EXCEPT ![o] = IF kind = "hist"
                         THEN [@ EXCEPT !.hist = IF o = 0 THEN "none" ELSE res]
                         ELSE [@ EXCEPT !.events = IF o = 0 THEN "none" ELSE res]]

\* What an invocation that finishes leaves behind in last
Outcome(p) ==
    [hist |-> fetch[p].hist, events |-> fetch[p].events,
     h0 |-> refresh[p].h0, e0 |-> refresh[p].e0,
     conc |-> refresh[p].conc, clr |-> refresh[p].clr, hit |-> refresh[p].hit]

\* Promise.all of refreshData: once both fetches of invocation o have
\* returned, the invocation goes on to the live-reading snapshot
AfterFetch(r, f, o) ==
    IF o \in Invocations /\ f[o].hist # "pending" /\ f[o].events # "pending"
    THEN [r EXCEPT ![o].pc = "liveSnap"] ELSE r

\* ------------------------------------------------------------------- Init
InitHook ==
    /\ currentData = NULL
    /\ historicalData = <<>>
    /\ irrigationEvents = <<>>
    /\ deviceStatus = NULL
    /\ loading = TRUE
    /\ error = NULL
    /\ connected = FALSE
    /\ lastUpdate = NULL
    /\ liveDataRef = NULL
    /\ deviceStatusRef = NULL
    /\ interval = {}
    /\ listeners = {}
    /\ refresh = [p \in Invocations |-> IdleRefresh]
    /\ fetch = [o \in Owners |-> NoFetch]
    /\ now = 1
    /\ thrown = FALSE
    /\ last = Op("init", 0, NULL)
    /\ published = [d \in Devices |-> 0]
    /\ deviceId = DefaultDevice
    /\ lifecycle = "rendered"
    /\ pumpControlLoading = FALSE
    /\ commands = 0

Init ==
    /\ InitHook
    /\ sensor_readings = Collection(MaxDocs, 2)
    /\ irrigation_log = EventLog(MaxLog, 5)

\* ------------------------------------------- the live-reading subscription
\* The callback without its setError(null)
OnLiveValueKeepsError(v) ==
    /\ currentData' = Some(v)
    /\ connected' = TRUE
    /\ lastUpdate' = Some(now)
    /\ UNCHANGED <<historicalData, irrigationEvents, deviceStatus, loading, error>>

\* onValue callback, snapshot.exists(): lines 1301-1307
OnLiveValue(v) ==
    /\ currentData' = Some(v)
    /\ connected' = TRUE
    /\ lastUpdate' = Some(now)
    /\ error' = NULL
    /\ UNCHANGED <<historicalData, irrigationEvents, deviceStatus, loading>>

\* The callback without its setConnected(false)
OnLiveEmptyStaysConnected ==
    /\ currentData' = NULL
    /\ UNCHANGED <<historicalData, irrigationEvents, deviceStatus, loading,
                   error, connected, lastUpdate>>

\* onValue callback, no value: lines 1308-1312
OnLiveEmpty ==
    /\ currentData' = NULL
    /\ connected' = FALSE
    /\ UNCHANGED <<historicalData, irrigationEvents, deviceStatus, loading,
                   error, lastUpdate>>

\* The cancel callback detaching the listener it belongs to
OnLiveErrorDetaches ==
    /\ error' = Some(ErrRealtime)
    /\ connected' = FALSE
    /\ UNCHANGED <<currentData, historicalData, irrigationEvents, deviceStatus,
                   loading, lastUpdate>>
    /\ liveDataRef' = NULL
    /\ listeners' = { l \in listeners : l.path[1] # "live_monitoring" }
    /\ UNCHANGED <<deviceStatusRef, interval>>

\* onValue cancel callback: lines 1314-1318.  The callback stores the
\* message and the flag and touches no listener.
OnLiveError ==
    /\ error' = Some(ErrRealtime)
    /\ connected' = FALSE
    /\ UNCHANGED <<currentData, historicalData, irrigationEvents, deviceStatus,
                   loading, lastUpdate>>
    /\ UNCHANGED <<refs, listeners>>

LiveDataValue(v) ==
    /\ Subscribed("live_monitoring")
    /\ OnLiveValue(v)
    /\ refresh' = NoteCleared(0)
    /\ last' = Op("LiveDataValue", 0, Some(v))
    /\ UNCHANGED <<life, view>>
    /\ UNCHANGED <<refs, remote, listeners, fetch, now, thrown>>

LiveDataEmpty ==
    /\ Subscribed("live_monitoring")
    /\ OnLiveEmpty
    /\ last' = Op("LiveDataEmpty", 0, NULL)
    /\ UNCHANGED <<life, view>>
    /\ UNCHANGED <<refs, remote, listeners, refresh, fetch, now, thrown>>

LiveDataError ==
    /\ Subscribed("live_monitoring")
    /\ OnLiveError
    /\ refresh' = NoteFailed(0)
    /\ last' = Op("LiveDataError", 0, NULL)
    /\ UNCHANGED <<life, view>>
    /\ UNCHANGED <<remote, fetch, now, thrown>>

\* ------------------------------------------ the device-status subscription
\* onValue callback, snapshot.exists(): lines 1326-1329
OnStatusValue(s) ==
    /\ deviceStatus' = Some(s)
    /\ UNCHANGED <<currentData, historicalData, irrigationEvents, loading,
                   error, connected, lastUpdate>>

\* onValue callback, no value: lines 1330-1332
OnStatusEmpty ==
    /\ deviceStatus' = NULL
    /\ UNCHANGED <<currentData, historicalData, irrigationEvents, loading,
                   error, connected, lastUpdate>>

\* The cancel callback written like the one of the live reading
OnStatusErrorLikeLive ==
    /\ error' = Some(ErrRealtime)
    /\ connected' = FALSE
    /\ UNCHANGED <<currentData, historicalData, irrigationEvents, deviceStatus,
                   loading, lastUpdate>>

\* onValue cancel callback: lines 1334-1336, a console.error and nothing else
OnStatusError == UNCHANGED hookState

DeviceStatusValue(s) ==
    /\ Subscribed("device_status")
    /\ OnStatusValue(s)
    /\ last' = Op("DeviceStatusValue", 0, Some(s))
    /\ UNCHANGED <<life, view>>
    /\ UNCHANGED <<refs, remote, listeners, refresh, fetch, now, thrown>>

DeviceStatusEmpty ==
    /\ Subscribed("device_status")
    /\ OnStatusEmpty
    /\ last' = Op("DeviceStatusEmpty", 0, NULL)
    /\ UNCHANGED <<life, view>>
    /\ UNCHANGED <<refs, remote, listeners, refresh, fetch, now, thrown>>

DeviceStatusError ==
    /\ Subscribed("device_status")
    /\ OnStatusError
    /\ last' = Op("DeviceStatusError", 0, NULL)
    /\ UNCHANGED <<life, view>>
    /\ UNCHANGED <<refs, remote, listeners, refresh, fetch, now, thrown>>

\* ------------------------------------------------------------ the fetches
\* fetchHistoricalData after getDocs resolved: lines 1242-1253
OnHistoryFetched(collection, device) ==
    /\ historicalData' = HistoricalReadings(collection, device)
    /\ UNCHANGED <<currentData, irrigationEvents, deviceStatus, loading, error,
                   connected, lastUpdate>>

\* The catch block also dropping the history it could not refresh
OnHistoryFailedClears ==
    /\ error' = Some(ErrHistory)
    /\ historicalData' = <<>>
    /\ UNCHANGED <<currentData, irrigationEvents, deviceStatus, loading,
                   connected, lastUpdate>>
    /\ UNCHANGED thrown

\* fetchHistoricalData without its setError
OnHistoryFailedSilent ==
    /\ UNCHANGED hookState
    /\ UNCHANGED thrown

\* fetchHistoricalData, catch: lines 1254-1257
OnHistoryFailed ==
    /\ error' = Some(ErrHistory)
    /\ UNCHANGED <<currentData, historicalData, irrigationEvents, deviceStatus,
                   loading, connected, lastUpdate>>
    /\ UNCHANGED thrown

\* fetchIrrigationEvents after get resolved: lines 1268-1287
OnEventsFetched(log) ==
    /\ irrigationEvents' = FetchedEvents(log)
    /\ UNCHANGED <<currentData, historicalData, deviceStatus, loading, error,
                   connected, lastUpdate>>

\* fetchIrrigationEvents without its try and catch
OnEventsFailedThrows ==
    /\ thrown' = TRUE
    /\ UNCHANGED hookState

\* fetchIrrigationEvents, catch: lines 1288-1291
OnEventsFailed ==
    /\ error' = Some(ErrEvents)
    /\ UNCHANGED <<currentData, historicalData, irrigationEvents, deviceStatus,
                   loading, connected, lastUpdate>>
    /\ UNCHANGED thrown

fetchHistoricalDataOk(o) ==
    /\ fetch[o].hist = "pending"
    /\ OnHistoryFetched(sensor_readings, fetch[o].device)
    /\ fetch' = Returned(o, "hist", "ok")
    /\ refresh' = AfterFetch(NoteFetched(o), fetch', o)
    /\ last' = Op("fetchHistoricalDataOk", o, NULL)
    /\ UNCHANGED <<life, view>>
    /\ UNCHANGED <<refs, remote, listeners, now, thrown>>

fetchHistoricalDataFail(o) ==
    /\ fetch[o].hist = "pending"
    /\ OnHistoryFailed
    /\ fetch' = Returned(o, "hist", "fail")
    /\ refresh' = AfterFetch(IF o \in Invocations
                             THEN [NoteFailed(o) EXCEPT ![o].clr = FALSE]
                             ELSE NoteFailed(o), fetch', o)
    /\ last' = Op("fetchHistoricalDataFail", o, NULL)
    /\ UNCHANGED <<life, view>>
    /\ UNCHANGED <<refs, remote, listeners, now>>

fetchIrrigationEventsOk(o) ==
    /\ fetch[o].events = "pending"
    /\ OnEventsFetched(LogOf(fetch[o].device))
    /\ fetch' = Returned(o, "events", "ok")
    /\ refresh' = AfterFetch(NoteFetched(o), fetch', o)
    /\ last' = Op("fetchIrrigationEventsOk", o, NULL)
    /\ UNCHANGED <<life, view>>
    /\ UNCHANGED <<refs, remote, listeners, now, thrown>>

fetchIrrigationEventsFail(o) ==
    /\ fetch[o].events = "pending"
    /\ OnEventsFailed
    /\ fetch' = Returned(o, "events", "fail")
    /\ refresh' = AfterFetch(IF o \in Invocations
                             THEN [NoteFailed(o) EXCEPT ![o].clr = FALSE]
                             ELSE NoteFailed(o), fetch', o)
    /\ last' = Op("fetchIrrigationEventsFail", o, NULL)
    /\ UNCHANGED <<life, view>>
    /\ UNCHANGED <<refs, remote, listeners, now>>

\* ------------------------------------------------------------ refreshData
\* refreshData without its setError(null)
OnRefreshStartKeepsError ==
    /\ loading' = TRUE
    /\ UNCHANGED <<currentData, historicalData, irrigationEvents, deviceStatus,
                   error, connected, lastUpdate>>

\* refreshData up to its first await: lines 1354-1362
OnRefreshStart ==
    /\ loading' = TRUE
    /\ error' = NULL
    /\ UNCHANGED <<currentData, historicalData, irrigationEvents, deviceStatus,
                   connected, lastUpdate>>

\* The bookkeeping of an invocation that starts: both fetches are issued
StartedRefresh(p) ==
    [NoteCleared(p) EXCEPT ![p] =
        [pc |-> "fetching", h0 |-> historicalData, e0 |-> irrigationEvents,
         conc |-> FALSE, clr |-> FALSE, hit |-> FALSE]]

\* The fetches close over the deviceId of the render that made them: the
\* current one for a call of refreshData, the timer's for a tick
StartedFetch(o, device) ==
    [fetch EXCEPT ![o] = [hist |-> "pending", events |-> "pending",
                          device |-> device]]

\* A call of refreshData by a caller (NULL: any); the invocation takes the
\* lowest free slot
CallRefreshData(p, caller) ==
    /\ lifecycle = "mounted"
    /\ ~Active(refresh[p])
    /\ \A q \in 1..(p - 1) : Active(refresh[q])
    /\ OnRefreshStart
    /\ refresh' = StartedRefresh(p)
    /\ fetch' = StartedFetch(p, deviceId)
    /\ last' = Op("refreshData", p, caller)
    /\ UNCHANGED <<life, view>>
    /\ UNCHANGED <<refs, remote, listeners, now, thrown>>

refreshData(p) == CallRefreshData(p, NULL)

\* The snapshot branch without its setLastUpdate
OnLiveSnapshotNoStamp(v) ==
    /\ currentData' = Some(v)
    /\ connected' = TRUE
    /\ UNCHANGED <<historicalData, irrigationEvents, deviceStatus, loading,
                   error, lastUpdate>>

\* live-reading snapshot found a value: lines 1365-1370
OnLiveSnapshot(v) ==
    /\ currentData' = Some(v)
    /\ connected' = TRUE
    /\ lastUpdate' = Some(now)
    /\ UNCHANGED <<historicalData, irrigationEvents, deviceStatus, loading, error>>

\* The snapshot clearing the reading as the subscription's callback does
OnLiveSnapshotEmptyClears ==
    /\ currentData' = NULL
    /\ connected' = FALSE
    /\ UNCHANGED <<historicalData, irrigationEvents, deviceStatus, loading,
                   error, lastUpdate>>

\* live-reading snapshot found no value: line 1366 is false
OnLiveSnapshotEmpty == UNCHANGED hookState

\* refreshData with setLoading(false) at the end of the try block
OnSnapshotFailedNoFinally ==
    /\ error' = Some(ErrRefresh)
    /\ UNCHANGED <<currentData, historicalData, irrigationEvents, deviceStatus,
                   loading, connected, lastUpdate>>
    /\ UNCHANGED thrown

\* a snapshot get() rejected: catch and finally, lines 1379-1384
OnSnapshotFailed ==
    /\ error' = Some(ErrRefresh)
    /\ loading' = FALSE
    /\ UNCHANGED <<currentData, historicalData, irrigationEvents, deviceStatus,
                   connected, lastUpdate>>
    /\ UNCHANGED thrown

\* device-status snapshot found a value, then finally: lines 1373-1378, 1382-1384
OnStatusSnapshot(s) ==
    /\ deviceStatus' = Some(s)
    /\ loading' = FALSE
    /\ UNCHANGED <<currentData, historicalData, irrigationEvents, error,
                   connected, lastUpdate>>

\* device-status snapshot found no value, then finally
OnStatusSnapshotEmpty ==
    /\ loading' = FALSE
    /\ UNCHANGED <<currentData, historicalData, irrigationEvents, deviceStatus,
                   error, connected, lastUpdate>>

LiveSnapshotValue(p, v) ==
    /\ refresh[p].pc = "liveSnap"
    /\ OnLiveSnapshot(v)
    /\ refresh' = [refresh EXCEPT ![p].pc = "statusSnap"]
    /\ last' = Op("LiveSnapshotValue", p, Some(v))
    /\ UNCHANGED <<life, view>>
    /\ UNCHANGED <<refs, remote, listeners, fetch, now, thrown>>

LiveSnapshotEmpty(p) ==
    /\ refresh[p].pc = "liveSnap"
    /\ OnLiveSnapshotEmpty
    /\ refresh' = [refresh EXCEPT ![p].pc = "statusSnap"]
    /\ last' = Op("LiveSnapshotEmpty", p, NULL)
    /\ UNCHANGED <<life, view>>
    /\ UNCHANGED <<refs, remote, listeners, fetch, now, thrown>>

LiveSnapshotFail(p) ==
    /\ refresh[p].pc = "liveSnap"
    /\ OnSnapshotFailed
    /\ refresh' = [NoteFailed(p) EXCEPT ![p] = IdleRefresh]
    /\ fetch' = [fetch EXCEPT ![p] = NoFetch]
    /\ last' = Op("LiveSnapshotFail", p, Some(Outcome(p)))
    /\ UNCHANGED <<life, view>>
    /\ UNCHANGED <<refs, remote, listeners, now>>

StatusSnapshotValue(p, s) ==
    /\ refresh[p].pc = "statusSnap"
    /\ OnStatusSnapshot(s)
    /\ refresh' = [refresh EXCEPT ![p] = IdleRefresh]
    /\ fetch' = [fetch EXCEPT ![p] = NoFetch]
    /\ last' = Op("StatusSnapshotValue", p, Some(Outcome(p)))
    /\ UNCHANGED <<life, view>>
    /\ UNCHANGED <<refs, remote, listeners, now, thrown>>

StatusSnapshotEmpty(p) ==
    /\ refresh[p].pc = "statusSnap"
    /\ OnStatusSnapshotEmpty
    /\ refresh' = [refresh EXCEPT ![p] = IdleRefresh]
    /\ fetch' = [fetch EXCEPT ![p] = NoFetch]
    /\ last' = Op("StatusSnapshotEmpty", p, Some(Outcome(p)))
    /\ UNCHANGED <<life, view>>
    /\ UNCHANGED <<refs, remote, listeners, now, thrown>>

StatusSnapshotFail(p) ==
    /\ refresh[p].pc = "statusSnap"
    /\ OnSnapshotFailed
    /\ refresh' = [NoteFailed(p) EXCEPT ![p] = IdleRefresh]
    /\ fetch' = [fetch EXCEPT ![p] = NoFetch]
    /\ last' = Op("StatusSnapshotFail", p, Some(Outcome(p)))
    /\ UNCHANGED <<life, view>>
    /\ UNCHANGED <<refs, remote, listeners, now>>

\* ------------------------------------------------- mounting and the timer
\* setupRealTimeListeners: lines 1295-1338
\* The refs keep what onValue returns: the unsubscribe functions.
SetupRealTimeListeners(registered, device) ==
    /\ liveDataRef' = Some(Unsubscribe("live_monitoring", device))
    /\ deviceStatusRef' = Some(Unsubscribe("device_status", device))
    /\ listeners' = onValue(onValue(registered, "live_monitoring", device),
                            "device_status", device)

\* The two effects of the first render: lines 1388-1402 and 1405-1413
Mount ==
    /\ lifecycle = "rendered"
    /\ OnRefreshStart
    /\ SetupRealTimeListeners(listeners, deviceId)
    /\ refresh' = StartedRefresh(1)
    /\ fetch' = StartedFetch(1, deviceId)
    /\ interval' = interval \cup {deviceId}
    /\ lifecycle' = "mounted"
    /\ last' = Op("Mount", 1, NULL)
    /\ UNCHANGED <<remote, now, thrown, deviceId, view>>

\* The timer callback calling refreshData's opening lines before the
\* fetches
IntervalTickRefreshes ==
    /\ fetch[0].hist # "pending"
    /\ fetch[0].events # "pending"
    /\ \E t \in interval : fetch' = StartedFetch(0, t)
    /\ OnRefreshStart
    /\ last' = Op("IntervalTick", 0, NULL)
    /\ UNCHANGED <<life, view>>
    /\ UNCHANGED <<refs, remote, listeners, refresh, now, thrown>>

\* A tick of the auto-refresh timer: lines 1406-1410.  The model lets a
\* tick happen when the fetches of the tick before it have returned.
IntervalTick ==
    /\ fetch[0].hist # "pending"
    /\ fetch[0].events # "pending"
    /\ \E t \in interval : fetch' = StartedFetch(0, t)
    /\ last' = Op("IntervalTick", 0, NULL)
    /\ UNCHANGED <<life, view>>
    /\ UNCHANGED <<hookState, refs, remote, listeners, refresh, now, thrown>>

\* Time passes
Tick ==
    /\ now < MaxTime
    /\ now' = now + 1
    /\ last' = Op("Tick", 0, NULL)
    /\ UNCHANGED <<life, view>>
    /\ UNCHANGED <<hookState, refs, remote, listeners, refresh, fetch, thrown>>

\* The remote stores change: a retention job deletes all but the newest
\* document, all but the first child of the log
FirestorePurge ==
    /\ Len(sensor_readings) > 1
    /\ sensor_readings' = Take(sensor_readings, 1)
    /\ last' = Op("FirestorePurge", 0, NULL)
    /\ UNCHANGED <<life, view>>
    /\ UNCHANGED <<hookState, refs, irrigation_log, published, listeners,
                   refresh, fetch, now, thrown>>

LogPurge ==
    /\ Len(irrigation_log) > 1
    /\ irrigation_log' = Take(irrigation_log, 1)
    /\ last' = Op("LogPurge", 0, NULL)
    /\ UNCHANGED <<life, view>>
    /\ UNCHANGED <<hookState, refs, sensor_readings, published, listeners,
                   refresh, fetch, now, thrown>>

\* ------------------------------------------------- teardown and re-render
\* The registry after cleanup has run with the deviceId of its render:
\* lines 1341-1350.  Each off is handed what the ref holds.
cleanup(device) ==
    LET live == IF liveDataRef # NULL
                THEN off(listeners, Path("live_monitoring", device), liveDataRef[1])
                ELSE listeners
    IN  IF deviceStatusRef # NULL
        THEN off(live, Path("device_status", device), deviceStatusRef[1])
        ELSE live

\* The lowest free slot for an invocation of refreshData
FreeSlot(p) ==
    /\ ~Active(refresh[p])
    /\ \A q \in 1..(p - 1) : Active(refresh[q])

\* The unmount without the clearInterval of line 1412
UnmountKeepsTimer ==
    /\ lifecycle = "mounted"
    /\ listeners' = cleanup(deviceId)
    /\ liveDataRef' = NULL
    /\ deviceStatusRef' = NULL
    /\ lifecycle' = "unmounted"
    /\ refresh' = [p \in Invocations |-> IdleRefresh]
    /\ fetch' = [o \in Owners |-> NoFetch]
    /\ last' = Op("Unmount", 0, NULL)
    /\ UNCHANGED <<hookState, remote, now, thrown, deviceId, view, interval>>

\* The view unmounts: the cleanups of both effects run, lines 1401 and 1412.
\* Continuations that run later update a component that is gone; nothing
\* of them can be observed, and the model drops them.
Unmount ==
    /\ lifecycle = "mounted"
    /\ listeners' = cleanup(deviceId)
    /\ liveDataRef' = NULL
    /\ deviceStatusRef' = NULL
    /\ interval' = interval \ {deviceId}
    /\ lifecycle' = "unmounted"
    /\ refresh' = [p \in Invocations |-> IdleRefresh]
    /\ fetch' = [o \in Owners |-> NoFetch]
    /\ last' = Op("Unmount", 0, NULL)
    /\ UNCHANGED <<hookState, remote, now, thrown, deviceId, view>>

\* The re-render aborting what the render before it had in flight
ChangeDeviceCancels(d, p) ==
    /\ lifecycle = "mounted"
    /\ d # deviceId
    /\ FreeSlot(p)
    /\ deviceId' = d
    /\ OnRefreshStart
    /\ SetupRealTimeListeners(cleanup(deviceId), d)
    /\ refresh' = [q \in Invocations |->
                      IF q = p THEN StartedRefresh(p)[p] ELSE IdleRefresh]
    /\ fetch' = [o \in Owners |->
                    IF o = p THEN StartedFetch(p, d)[p] ELSE NoFetch]
    /\ interval' = (interval \ {deviceId}) \cup {d}
    /\ last' = Op("ChangeDevice", p, NULL)
    /\ UNCHANGED <<remote, now, thrown, lifecycle, view>>

\* The hook is rendered with another deviceId: the cleanups of the render
\* before run, then both effects run again, lines 1388-1413
ChangeDevice(d, p) ==
    /\ lifecycle = "mounted"
    /\ d # deviceId
    /\ FreeSlot(p)
    /\ deviceId' = d
    /\ OnRefreshStart
    /\ SetupRealTimeListeners(cleanup(deviceId), d)
    /\ refresh' = StartedRefresh(p)
    /\ fetch' = StartedFetch(p, d)
    /\ interval' = (interval \ {deviceId}) \cup {d}
    /\ last' = Op("ChangeDevice", p, NULL)
    /\ UNCHANGED <<remote, now, thrown, lifecycle, view>>

\* A listener is still registered at a path of a device other than the
\* current one, and the component it updates is mounted
Stale(name) ==
    /\ lifecycle = "mounted"
    /\ \E d \in Devices : d # deviceId /\ ListensAt(name, d)

\* The callbacks of such a listener: the code of lines 1300-1318 and
\* 1325-1336, run for a push on the path of the other device
StaleLiveDataValue(v) ==
    /\ Stale("live_monitoring")
    /\ OnLiveValue(v)
    /\ refresh' = NoteCleared(0)
    /\ last' = Op("StaleLiveDataValue", 0, Some(v))
    /\ UNCHANGED <<refs, remote, listeners, fetch, now, thrown, life, view>>

StaleLiveDataEmpty ==
    /\ Stale("live_monitoring")
    /\ OnLiveEmpty
    /\ last' = Op("StaleLiveDataEmpty", 0, NULL)
    /\ UNCHANGED <<refs, remote, listeners, refresh, fetch, now, thrown, life, view>>

StaleLiveDataError ==
    /\ Stale("live_monitoring")
    /\ OnLiveError
    /\ refresh' = NoteFailed(0)
    /\ last' = Op("StaleLiveDataError", 0, NULL)
    /\ UNCHANGED <<remote, fetch, now, thrown, life, view>>

StaleDeviceStatusValue(s) ==
    /\ Stale("device_status")
    /\ OnStatusValue(s)
    /\ last' = Op("StaleDeviceStatusValue", 0, Some(s))
    /\ UNCHANGED <<refs, remote, listeners, refresh, fetch, now, thrown, life, view>>

StaleDeviceStatusEmpty ==
    /\ Stale("device_status")
    /\ OnStatusEmpty
    /\ last' = Op("StaleDeviceStatusEmpty", 0, NULL)
    /\ UNCHANGED <<refs, remote, listeners, refresh, fetch, now, thrown, life, view>>

\* --------------------------------------------------------------- the view
\* The view is a function of the hook's state and of its own flags.
\* Lines 264-282: with an error stored the component returns the alert
\* and its Retry button, and nothing else.  Otherwise the cards that show
\* the live reading are skeletons while loading, the reading when there is
\* one, and the empty state with its Check Again button when there is none
\* (lines 331-424; the other cards branch the same way, 455-461, 729-735).
LiveCards ==
    IF error # NULL THEN "alert"
    ELSE IF loading THEN "skeleton"
    ELSE IF currentData # NULL THEN "reading"
    ELSE "empty"

\* The alert shows the message: line 272
ShowsError == LiveCards = "alert"

\* The cards show the stored reading
ShowsReading == LiveCards = "reading"

\* The charts show the stored history: lines 547-551, 915-919
ShowsHistory == error = NULL /\ ~loading /\ historicalData # <<>>

\* The controls that call refreshData: the alert's Retry (line 273), the
\* header's Refresh and the Refresh All Data button (lines 311, 1058, both
\* disabled while loading) and the empty state's Check Again (line 418)
RetryButton == LiveCards = "alert"

RefreshButton == LiveCards # "alert" /\ ~loading

CheckAgainButton == LiveCards = "empty"

\* The pump button, lines 494-503: rendered with the reading, disabled
\* while a command is in flight
PumpButton == LiveCards = "reading" /\ ~pumpControlLoading

\* A click on each of these controls calls refreshData
ClickRetry(p) == RetryButton /\ CallRefreshData(p, Some("Retry"))

ClickRefresh(p) == RefreshButton /\ CallRefreshData(p, Some("Refresh"))

ClickCheckAgain(p) == CheckAgainButton /\ CallRefreshData(p, Some("Check Again"))

\* ------------------------------------------------- the view's helpers
Abs(x) == IF x < 0 THEN -x ELSE x

\* The number 0
Zero == [negative |-> FALSE, whole |-> 0, tenths |-> 0]

\* JavaScript's x / 10 for an integer x: sign, whole part and tenths
DividedBy10(x) ==
    [negative |-> x < 0, whole |-> Abs(x) \div 10, tenths |-> Abs(x) % 10]

\* convertTempFromX10, lines 167-170; an absent field is NULL
convertTempFromX10(tempX10) ==
    IF tempX10 = NULL \/ tempX10[1] = 0 THEN Zero
    ELSE DividedBy10(tempX10[1])

\* Number.prototype.toFixed(1) of such a number: sign, digits before the
\* point, digit after it
toFixed1(x) == <<IF x.negative THEN "-" ELSE "", x.whole, x.tenths>>

\* The soil-temperature card, lines 346-348: the text before the unit, or
\* NULL when the card is not on the screen
SoilTemperatureCard ==
    IF ShowsReading
    THEN Some(toFixed1(convertTempFromX10(currentData[1].soil_temperature)))
    ELSE NULL

\* getMoistureStatus with the boundaries on the upper side
getMoistureStatusInclusive(moisture) ==
    IF moisture <= 30 THEN "Critical"
    ELSE IF moisture <= 50 THEN "Low"
    ELSE IF moisture <= 70 THEN "Good"
    ELSE "Excellent"

\* getMoistureStatus, lines 172-177: the status of the returned object
getMoistureStatus(moisture) ==
    IF moisture < 30 THEN "Critical"
    ELSE IF moisture < 50 THEN "Low"
    ELSE IF moisture < 70 THEN "Good"
    ELSE "Excellent"

\* The root-moisture card, line 390
MoistureCard ==
    IF ShowsReading THEN Some(getMoistureStatus(currentData[1].moisture_root))
    ELSE NULL

\* getWifiStrength with >= in place of >
getWifiStrengthInclusive(signal) ==
    IF signal = NULL \/ signal[1] = 0 THEN [strength |-> "Unknown", bars |-> 0]
    ELSE IF signal[1] >= -50 THEN [strength |-> "Excellent", bars |-> 4]
    ELSE IF signal[1] >= -60 THEN [strength |-> "Good", bars |-> 3]
    ELSE IF signal[1] >= -70 THEN [strength |-> "Fair", bars |-> 2]
    ELSE [strength |-> "Weak", bars |-> 1]

\* getWifiStrength, lines 179-185; an absent field is NULL
getWifiStrength(signal) ==
    IF signal = NULL \/ signal[1] = 0 THEN [strength |-> "Unknown", bars |-> 0]
    ELSE IF signal[1] > -50 THEN [strength |-> "Excellent", bars |-> 4]
    ELSE IF signal[1] > -60 THEN [strength |-> "Good", bars |-> 3]
    ELSE IF signal[1] > -70 THEN [strength |-> "Fair", bars |-> 2]
    ELSE [strength |-> "Weak", bars |-> 1]

\* The WiFi line of the moisture card, line 491
WifiLine ==
    IF ShowsReading THEN Some(getWifiStrength(currentData[1].wifi_signal))
    ELSE NULL

\* Array.prototype.slice(-n): the last n elements of the array
SliceLast(s, n) == SubSeq(s, Len(s) - Min(n, Len(s)) + 1, Len(s))

\* The readings formatHistoricalData charts: lines 201-204
Charted ==
    IF historicalData = <<>> THEN <<>>
    ELSE SliceLast(historicalData, ChartLimit)

\* toLocaleTimeString with hour and minute only, of a time counted in
\* minutes: lines 206-209
TimeLabel(ts) == [hour |-> (ts \div 60) % 24, minute |-> ts % 60]

\* formatHistoricalData, lines 200-218: one chart point per charted reading
formatHistoricalData ==
    [i \in 1..Len(Charted) |->
        [time |-> TimeLabel(Charted[i].timestamp),
         airTemp |-> convertTempFromX10(Some(Charted[i].air_temperature)),
         pumpActive |-> Charted[i].pump_active]]

\* LiveData objects with the fields the cards read; each set of readings
\* varies one field over its range
Sensors(t, m, s) ==
    [timestamp |-> 1, pump_active |-> FALSE, soil_temperature |-> t,
     moisture_root |-> m, wifi_signal |-> s]

Temperatures == {NULL} \cup { Some(t) : t \in (0 - MaxTemp)..MaxTemp }

Moistures == 0..MaxMoisture

Signals == {NULL} \cup { Some(s) : s \in (0 - MaxSignal)..1 }

SensorValues ==
    { Sensors(t, 45, Some(-55)) : t \in Temperatures }
        \cup { Sensors(Some(215), m, Some(-55)) : m \in Moistures }
        \cup { Sensors(Some(215), 45, s) : s \in Signals }

\* ------------------------------------------------------- the pump button
\* What the view destructures as controlPump (line 163): the object the
\* hook returns (lines 1415-1425) has no such key, so it is undefined.
controlPump == NULL

\* controlPump(newState), line 250: calling undefined throws a TypeError
\* before anything is sent
CallControlPump(newState) ==
    IF controlPump = NULL
    THEN [threw |-> TRUE, sent |-> 0, success |-> FALSE, state |-> newState]
    ELSE [threw |-> FALSE, sent |-> 1, success |-> TRUE, state |-> newState]

\* handlePumpControl without its finally block
OnPumpControlNoFinally(call) ==
    /\ pumpControlLoading' = TRUE
    /\ commands' = commands + call.sent

\* handlePumpControl, lines 247-261: the flag is set, the call is made, and
\* as the call throws at once the catch and the finally run in the same
\* turn
OnPumpControl(call) ==
    /\ pumpControlLoading' = FALSE
    /\ commands' = commands + call.sent

\* The state the handler asks for, line 249, with the toggle left out
NewStateSame(liveData) == IF liveData.pump_active THEN "ON" ELSE "OFF"

\* The state the handler asks for, line 249: the opposite of pump_active
NewState(liveData) == IF liveData.pump_active THEN "OFF" ELSE "ON"

\* A click on the pump button, which is rendered with a live reading and
\* enabled while pumpControlLoading is false: lines 243-262, 494-503
handlePumpControl ==
    /\ lifecycle = "mounted"
    /\ PumpButton
    /\ currentData # NULL
    /\ LET call == CallControlPump(NewState(currentData[1]))
           click == IF last.op = "handlePumpControl" THEN 1 - last.p ELSE 0
       IN  /\ OnPumpControl(call)
           /\ last' = Op("handlePumpControl", click, Some(call))
    /\ UNCHANGED <<hookState, refs, remote, listeners, refresh, fetch, now,
                   thrown, life>>

\* ------------------------------------------ the store's live readings
\* The reading a device publishes at time i
Reading(i) == [timestamp |-> i, pump_active |-> (i % 2 = 0)]

\* The time of the newest reading of any device
Latest ==
    CHOOSE i \in 0..MaxReading :
        /\ \E d \in Devices : published[d] = i
        /\ \A d \in Devices : published[d] <= i

\* A device writes a new reading to its live_monitoring path
Publish(d) ==
    /\ Latest < MaxReading
    /\ published' = [published EXCEPT ![d] = Latest + 1]
    /\ last' = Op("Publish", 0, NULL)
    /\ UNCHANGED <<hookState, refs, sensor_readings, irrigation_log, listeners,
                   refresh, fetch, now, thrown, life, view>>

\* The store pushes the reading it holds for the current deviceId
LivePush ==
    /\ published[deviceId] > 0
    /\ LiveDataValue(Reading(published[deviceId]))

\* The store pushes the reading it holds for another device to a listener
\* still registered at that device's path
StaleLivePush ==
    \E d \in Devices :
        /\ d # deviceId
        /\ ListensAt("live_monitoring", d)
        /\ published[d] > 0
        /\ StaleLiveDataValue(Reading(published[d]))

\* get(live_monitoring/{deviceId}) of invocation p resolves with what the
\* store holds at the path of the deviceId the invocation closed over
LiveSnapshotCurrent(p) ==
    /\ refresh[p].pc = "liveSnap"
    /\ IF published[fetch[p].device] > 0
       THEN LiveSnapshotValue(p, Reading(published[fetch[p].device]))
       ELSE LiveSnapshotEmpty(p)

\* ----------------------------------------------------- the specifications
\* The hook with one refreshData invocation at a time and both live
\* subscriptions; the remote stores hold a fixed content.
First == {1}

Subscriptions ==
    \/ \E v \in LiveValues : LiveDataValue(v)
    \/ LiveDataEmpty
    \/ LiveDataError
    \/ \E s \in StatusValues : DeviceStatusValue(s)
    \/ DeviceStatusEmpty
    \/ DeviceStatusError

Fetches(owners) ==
    \/ \E o \in owners : fetchHistoricalDataOk(o)
    \/ \E o \in owners : fetchHistoricalDataFail(o)
    \/ \E o \in owners : fetchIrrigationEventsOk(o)
    \/ \E o \in owners : fetchIrrigationEventsFail(o)

Snapshots(slots) ==
    \/ \E p \in slots, v \in LiveValues : LiveSnapshotValue(p, v)
    \/ \E p \in slots : LiveSnapshotEmpty(p)
    \/ \E p \in slots : LiveSnapshotFail(p)
    \/ \E p \in slots, s \in StatusValues : StatusSnapshotValue(p, s)
    \/ \E p \in slots : StatusSnapshotEmpty(p)
    \/ \E p \in slots : StatusSnapshotFail(p)

Next ==
    \/ Mount
    \/ Tick
    \/ Subscriptions
    \/ \E p \in First : refreshData(p)
    \/ Fetches(First)
    \/ Snapshots(First)

Spec == Init /\ [][Next]_vars

\* Every remote operation the hook issued resolves or rejects in the end
Resolves ==
    /\ WF_vars(Fetches(First))
    /\ WF_vars(Snapshots(First))

\* Refreshes and the live-reading events that interleave with them
NextRefresh ==
    \/ Mount
    \/ \E v \in LiveValues : LiveDataValue(v)
    \/ LiveDataError
    \/ \E p \in First : refreshData(p)
    \/ Fetches(First)
    \/ Snapshots(First)

SpecFair == Init /\ [][NextRefresh]_vars /\ Resolves

\* Overlapping refreshData invocations and live pushes
NextOverlap ==
    \/ Mount
    \/ \E v \in LiveValues : LiveDataValue(v)
    \/ \E p \in Invocations : refreshData(p)
    \/ Fetches(Invocations)
    \/ Snapshots(Invocations)

SpecOverlap == Init /\ [][NextOverlap]_vars

\* fetchHistoricalData over collections of every length, from mounting and
\* from the timer, before and after a purge
InitHistory ==
    /\ InitHook
    /\ sensor_readings \in Collections(HistDocs)
    /\ irrigation_log = <<>>

NextHistory ==
    \/ Mount
    \/ IntervalTick
    \/ FirestorePurge
    \/ \E o \in Owners : fetchHistoricalDataOk(o)
    \/ \E o \in Owners : fetchIrrigationEventsOk(o)

SpecHistory == InitHistory /\ [][NextHistory]_vars

\* fetchIrrigationEvents over logs of every length
InitEvents ==
    /\ InitHook
    /\ sensor_readings = <<>>
    /\ irrigation_log \in EventLogs(LogDocs)

NextEvents ==
    \/ Mount
    \/ IntervalTick
    \/ LogPurge
    \/ \E o \in Owners : fetchHistoricalDataOk(o)
    \/ \E o \in Owners : fetchIrrigationEventsOk(o)

SpecEvents == InitEvents /\ [][NextEvents]_vars

\* The life of the hook: mounting, renders with another deviceId,
\* unmounting, the timer, and the callbacks of listeners old and new
StaleSubscriptions ==
    \/ \E v \in LiveValues : StaleLiveDataValue(v)
    \/ StaleLiveDataEmpty
    \/ StaleLiveDataError
    \/ \E s \in StatusValues : StaleDeviceStatusValue(s)
    \/ StaleDeviceStatusEmpty

NextLife ==
    \/ Mount
    \/ Unmount
    \/ \E d \in Devices, p \in Invocations : ChangeDevice(d, p)
    \/ \E v \in LiveValues : LiveDataValue(v)
    \/ StaleSubscriptions
    \/ \E o \in Invocations : fetchHistoricalDataOk(o)
    \/ \E o \in Invocations : fetchIrrigationEventsOk(o)
    \/ \E p \in Invocations, v \in LiveValues : LiveSnapshotValue(p, v)

SpecLife == Init /\ [][NextLife]_vars

\* The auto-refresh timer through the life of the hook
NextTimer ==
    \/ Mount
    \/ Unmount
    \/ \E d \in Devices, p \in Invocations : ChangeDevice(d, p)
    \/ IntervalTick
    \/ Fetches({0})

SpecTimer == Init /\ [][NextTimer]_vars

\* The ticks of the timer beside a Refresh and the live subscriptions
NextTick ==
    \/ Mount
    \/ IntervalTick
    \/ Fetches({0})
    \/ \E p \in First : refreshData(p)
    \/ \E o \in First : fetchHistoricalDataOk(o)
    \/ \E o \in First : fetchIrrigationEventsOk(o)
    \/ Snapshots(First)
    \/ \E v \in LiveValues : LiveDataValue(v)
    \/ LiveDataEmpty

SpecTick == Init /\ [][NextTick]_vars

\* Live pushes and snapshots of a store whose readings carry the time
\* they were published at; every push and every snapshot hands over the
\* reading the store holds at that moment
NextRace ==
    \/ Mount
    \/ \E d \in Devices, p \in Invocations : ChangeDevice(d, p)
    \/ \E d \in Devices : Publish(d)
    \/ LivePush
    \/ StaleLivePush
    \/ \E o \in Invocations : fetchHistoricalDataOk(o)
    \/ \E o \in Invocations : fetchIrrigationEventsOk(o)
    \/ \E p \in Invocations : LiveSnapshotCurrent(p)
    \/ \E p \in Invocations : StatusSnapshotEmpty(p)

SpecRace == Init /\ [][NextRace]_vars

\* The view: live readings arrive and the pump button is clicked
NextView ==
    \/ Mount
    \/ Unmount
    \/ Subscriptions
    \/ handlePumpControl
    \/ Fetches(First)
    \/ Snapshots(First)

SpecView == Init /\ [][NextView]_vars

\* The cards of the view over live readings of every temperature,
\* moisture and signal, once the first Refresh has set loading false
NextRender ==
    \/ Mount
    \/ \E v \in SensorValues : LiveDataValue(v)
    \/ LiveDataEmpty
    \/ \E o \in First : fetchHistoricalDataOk(o)
    \/ \E o \in First : fetchIrrigationEventsOk(o)
    \/ \E p \in First, v \in SensorValues : LiveSnapshotValue(p, v)
    \/ \E p \in First : LiveSnapshotEmpty(p)
    \/ \E p \in First : StatusSnapshotEmpty(p)

SpecRender == Init /\ [][NextRender]_vars

\* The Refreshes the user starts from the controls of the view, beside the
\* live-reading subscription; every remote operation can fail
Overlapping == {1, 2}

InitRetry ==
    /\ InitHook
    /\ sensor_readings = Collection(1, 1)
    /\ irrigation_log = <<>>

NextRetry ==
    \/ Mount
    \/ \E p \in Overlapping : ClickRetry(p)
    \/ \E p \in Overlapping : ClickRefresh(p)
    \/ \E p \in Overlapping : ClickCheckAgain(p)
    \/ LiveDataValue(Reading(1))
    \/ LiveDataError
    \/ Fetches(Overlapping)
    \/ \E p \in Overlapping : LiveSnapshotValue(p, Reading(1))
    \/ \E p \in Overlapping : LiveSnapshotEmpty(p)
    \/ \E p \in Overlapping : LiveSnapshotFail(p)
    \/ \E p \in Overlapping : StatusSnapshotEmpty(p)
    \/ \E p \in Overlapping : StatusSnapshotFail(p)

SpecRetry == InitRetry /\ [][NextRetry]_vars

\* ================================================================ claims
StatusOps == {"DeviceStatusValue", "DeviceStatusEmpty", "DeviceStatusError"}

\* C1: after a push of the live-reading subscription that carries a value,
\* currentData is the pushed value, connected is true, lastUpdate is the
\* time of the push and error is null, whatever the state was before.
C1_LivePushStored ==
    last.op = "LiveDataValue" =>
        /\ currentData = last.v
        /\ connected = TRUE
        /\ lastUpdate = Some(now)
        /\ error = NULL

\* A push arrived while the refresh in flight had a failed history fetch
\* behind it, whose message the push cleared.
C1_Witness ==
    /\ last.op = "LiveDataValue"
    /\ fetch[1].hist = "fail"
    /\ currentData # NULL
    /\ error = NULL

\* C2: after a push of the live-reading subscription for a path without a
\* value, currentData is null and connected is false.
C2_LiveEmptyClears ==
    last.op = "LiveDataEmpty" => (currentData = NULL /\ connected = FALSE)

\* The empty push arrived after a reading had been stored
C2_Witness ==
    /\ last.op = "LiveDataEmpty"
    /\ lastUpdate # NULL
    /\ currentData = NULL

\* C3: a transport error of the live-reading subscription stores a message
\* and sets connected false; it leaves currentData, historicalData,
\* irrigationEvents and deviceStatus alone and leaves the listener
\* registered, so that a push with a value can follow it.
C3_LiveErrorKeepsData ==
    /\ [][last'.op = "LiveDataError" =>
            /\ error' # NULL
            /\ connected' = FALSE
            /\ UNCHANGED <<currentData, historicalData, irrigationEvents,
                           deviceStatus>>
            /\ UNCHANGED <<liveDataRef, listeners>>]_vars
    /\ [](last.op = "LiveDataError" =>
            \A v \in LiveValues : ENABLED LiveDataValue(v))

\* The error arrived with a reading, a history and events stored
C3_Witness ==
    /\ last.op = "LiveDataError"
    /\ currentData # NULL
    /\ historicalData # <<>>
    /\ irrigationEvents # <<>>
    /\ deviceStatus # NULL

\* C4: an event of the device-status subscription changes nothing but
\* deviceStatus: a value is stored, an absent value stores null, and
\* connected, error, currentData, lastUpdate, loading, historicalData and
\* irrigationEvents stay as they are.
C4_StatusOnlyStatus ==
    [][last'.op \in StatusOps =>
          /\ UNCHANGED <<connected, error, currentData, lastUpdate, loading,
                         historicalData, irrigationEvents>>
          /\ last'.op = "DeviceStatusValue" => deviceStatus' = last'.v
          /\ last'.op = "DeviceStatusEmpty" => deviceStatus' = NULL]_vars

\* A transport error of the status subscription while the hook is
\* connected and shows no error
C4_Witness ==
    /\ last.op = "DeviceStatusError"
    /\ connected = TRUE
    /\ error = NULL
    /\ currentData # NULL

\* The bookkeeping of the invocation that finished in the last step
Finished == last.v[1]

FinishOps ==
    {"LiveSnapshotFail", "StatusSnapshotValue", "StatusSnapshotEmpty",
     "StatusSnapshotFail"}

SnapshotFailOps == {"LiveSnapshotFail", "StatusSnapshotFail"}

FetchFailOps == {"fetchHistoricalDataFail", "fetchIrrigationEventsFail"}

\* The invocation that finished in the last step had a failed fetch
FetchFailed == Finished.hist = "fail" \/ Finished.events = "fail"

\* C5: when a Refresh both of whose fetches failed finishes, and no other
\* fetch stored anything meanwhile, historicalData and irrigationEvents
\* are what they were when the Refresh started and loading is false.
C5_FailedRefreshKeepsData ==
    (/\ last.op \in FinishOps
     /\ Finished.hist = "fail"
     /\ Finished.events = "fail"
     /\ ~Finished.conc) =>
        /\ historicalData = Finished.h0
        /\ irrigationEvents = Finished.e0
        /\ loading = FALSE

\* Such a Refresh finished over a history and events loaded before it
C5_Witness ==
    /\ last.op \in FinishOps
    /\ Finished.hist = "fail"
    /\ Finished.events = "fail"
    /\ ~Finished.conc
    /\ historicalData # <<>>
    /\ irrigationEvents # <<>>
    /\ loading = FALSE

\* C6: a Refresh sets loading true when it starts, sets loading false in
\* the step that finishes it, and finishes whenever its remote operations
\* resolve or reject, whatever their outcomes.
C6_RefreshEndsLoading ==
    /\ [][last'.op \in {"Mount", "refreshData"} => loading' = TRUE]_vars
    /\ [][last'.op \in FinishOps => loading' = FALSE]_vars
    /\ \A p \in First :
          Active(refresh[p]) ~>
              (last.op \in FinishOps /\ last.p = p /\ loading = FALSE)

\* A Refresh finished with one fetch failed, the other loaded, and the
\* device-status snapshot rejected
C6_Witness ==
    /\ last.op = "StatusSnapshotFail"
    /\ Finished.hist = "fail"
    /\ Finished.events = "ok"
    /\ loading = FALSE

\* C7 as claimed: when a Refresh one of whose operations failed sets
\* loading back to false, error is not null.
C7_Claimed ==
    (last.op \in FinishOps /\ (FetchFailed \/ last.op \in SnapshotFailOps)) =>
        error # NULL

\* C7 amended: a failed snapshot leaves error non-null when the Refresh
\* sets loading false; a failed fetch sets error non-null when it fails,
\* and error is still non-null when the Refresh finishes unless a step
\* that clears error (a live push with a value, the start of another
\* Refresh) came after the last failed fetch.
C7_ErrorUnlessCleared ==
    /\ last.op \in SnapshotFailOps => error # NULL
    /\ last.op \in FetchFailOps => error # NULL
    /\ (last.op \in FinishOps /\ FetchFailed /\ ~Finished.clr) => error # NULL

\* A Refresh whose history fetch failed finished with the message still
\* stored, although a live reading had arrived before the failure
C7_Witness ==
    /\ last.op = "StatusSnapshotValue"
    /\ Finished.hist = "fail"
    /\ ~Finished.clr
    /\ connected = TRUE
    /\ error = Some(ErrHistory)

FailOps == {"LiveDataError", "DeviceStatusError"} \cup FetchFailOps \cup SnapshotFailOps

\* C8 as claimed: every failure of a subscription, a fetch or a snapshot
\* leaves error non-null and connected false.
C8_Claimed ==
    last.op \in FailOps => (error # NULL /\ connected = FALSE)

\* C8 amended: a failure of the live-reading subscription sets error
\* non-null and connected false; a failed fetch or snapshot sets error
\* non-null and leaves connected as it was; a failure of the device-status
\* subscription changes neither; none of them throws out of the hook.
C8_FailureHandling ==
    [][/\ last'.op = "LiveDataError" => (error' # NULL /\ connected' = FALSE)
       /\ last'.op \in FetchFailOps \cup SnapshotFailOps =>
             (error' # NULL /\ connected' = connected)
       /\ last'.op = "DeviceStatusError" => UNCHANGED <<error, connected>>
       /\ last'.op \in FailOps => thrown' = FALSE]_vars

\* An event fetch failed while the live reading was connected
C8_Witness ==
    /\ last.op = "fetchIrrigationEventsFail"
    /\ connected = TRUE
    /\ error = Some(ErrEvents)
    /\ thrown = FALSE

\* The children of the log that are objects
LogObjects == { i \in 1..Len(irrigation_log) : irrigation_log[i].kind = "object" }

\* C9: after a successful fetchIrrigationEvents, irrigationEvents holds
\* object entries of the log only, each at most once, newest first, as many
\* as the log has up to 20, and no entry left out is newer than one kept;
\* an empty log gives the empty sequence.
C9_EventsNewestFirst ==
    last.op = "fetchIrrigationEventsOk" =>
        LET kept == irrigationEvents
            keys == { kept[j].key : j \in 1..Len(kept) }
        IN  /\ \A j \in 1..Len(kept) :
                  \E i \in LogObjects : kept[j] = irrigation_log[i]
            /\ Cardinality(keys) = Len(kept)
            /\ \A j \in 1..(Len(kept) - 1) :
                  DateGetTime(kept[j].timestamp) >= DateGetTime(kept[j + 1].timestamp)
            /\ Len(kept) = Min(EventLimit, Cardinality(LogObjects))
            /\ \A i \in LogObjects :
                  irrigation_log[i].key \notin keys =>
                      \A j \in 1..Len(kept) :
                          DateGetTime(irrigation_log[i].timestamp)
                              <= DateGetTime(kept[j].timestamp)
            /\ irrigation_log = <<>> => kept = <<>>

\* A fetch over a log out of order, with primitives among its children and
\* more than 20 events, of which the 20 newest were kept
C9_Witness ==
    /\ last.op = "fetchIrrigationEventsOk"
    /\ Cardinality(LogObjects) > EventLimit
    /\ Cardinality(LogObjects) < Len(irrigation_log)
    /\ \E i \in LogObjects : i + 1 \in LogObjects
          /\ DateGetTime(irrigation_log[i].timestamp)
                < DateGetTime(irrigation_log[i + 1].timestamp)
    /\ Len(irrigationEvents) = EventLimit

\* The documents the query returns, and those of them that decode
QueryRange == 1..Min(HistoryLimit, Len(sensor_readings))

Decodable(range) == { i \in range : sensor_readings[i].decodable }

\* The j-th decodable document among those returned
NthDecodable(j) ==
    CHOOSE i \in Decodable(QueryRange) :
        Cardinality({ m \in Decodable(QueryRange) : m <= i }) = j

\* historicalData is the decodable documents returned, in their order
HistoryAsReturned ==
    /\ Len(historicalData) = Cardinality(Decodable(QueryRange))
    /\ \A j \in 1..Len(historicalData) :
          historicalData[j].timestamp
              = sensor_readings[NthDecodable(j)].fields.timestamp[1]

\* C10 as claimed: after a successful fetchHistoricalData, historicalData
\* is the decodable documents returned, in the order of the store; it has
\* never more than 48 elements, and exactly n when the store holds n <= 48
\* decodable documents.
C10_Claimed ==
    last.op = "fetchHistoricalDataOk" =>
        /\ HistoryAsReturned
        /\ Len(historicalData) <= HistoryLimit
        /\ Cardinality(Decodable(DOMAIN sensor_readings)) <= HistoryLimit =>
              Len(historicalData) = Cardinality(Decodable(DOMAIN sensor_readings))

\* C10 amended: as claimed, but the count is exact when the store holds at
\* most 48 documents in all, n of them decodable.
C10_HistoryReplaced ==
    last.op = "fetchHistoricalDataOk" =>
        /\ HistoryAsReturned
        /\ Len(historicalData) <= HistoryLimit
        /\ Len(sensor_readings) <= HistoryLimit =>
              Len(historicalData) = Cardinality(Decodable(DOMAIN sensor_readings))

\* A fetch over a store of 10 documents stored 10 readings
C10_Witness ==
    /\ last.op = "fetchHistoricalDataOk"
    /\ Len(sensor_readings) = 10
    /\ Len(historicalData) = 10

\* The value of an optional field, or the default d when it is absent
Field(x, d) == IF x = NULL THEN d ELSE x[1]

\* Reading j of historicalData is document NthDecodable(j) decoded: present
\* numbers, booleans and non-empty strings are kept, an absent number is 0,
\* an absent boolean false, an absent pump_state "OFF", an absent
\* irrigation_reason empty
DecodedWithDefaults(j) ==
    LET f == sensor_readings[NthDecodable(j)].fields
        r == historicalData[j]
    IN  /\ r.timestamp = Field(f.timestamp, 0)
        /\ r.air_temperature = Field(f.air_temperature, 0)
        /\ r.pump_active = Field(f.pump_active, FALSE)
        /\ r.pump_state = IF Field(f.pump_state, "") = "" THEN "OFF" ELSE f.pump_state[1]
        /\ r.irrigation_reason = Field(f.irrigation_reason, "")
        /\ f.device_id # NULL => r.device_id = f.device_id[1]

\* C11 as claimed: after a successful fetchHistoricalData every document
\* that decodes is stored with a default for each absent field, a string
\* field being empty or "OFF"; documents that fail to decode are left out,
\* the others are stored, and the batch leaves the error field alone.
C11_Claimed ==
    last.op = "fetchHistoricalDataOk" =>
        /\ HistoryAsReturned
        /\ \A j \in 1..Len(historicalData) :
              /\ DecodedWithDefaults(j)
              /\ sensor_readings[NthDecodable(j)].fields.device_id = NULL =>
                    historicalData[j].device_id \in {"", "OFF"}

\* C11 amended: as claimed, but an absent device_id is replaced by the
\* deviceId of the hook.
C11_DecodedWithDefaults ==
    /\ [](last.op = "fetchHistoricalDataOk" =>
            /\ HistoryAsReturned
            /\ \A j \in 1..Len(historicalData) :
                  /\ DecodedWithDefaults(j)
                  /\ sensor_readings[NthDecodable(j)].fields.device_id = NULL =>
                        historicalData[j].device_id = deviceId)
    /\ [][last'.op = "fetchHistoricalDataOk" => error' = error]_vars

\* A batch with documents that failed to decode among documents that were
\* stored, one of these with its number and its device_id absent
C11_Witness ==
    /\ last.op = "fetchHistoricalDataOk"
    /\ Len(historicalData) < Len(sensor_readings)
    /\ Len(sensor_readings) <= HistoryLimit
    /\ \E j \in 1..Len(historicalData) :
          /\ sensor_readings[NthDecodable(j)].fields.air_temperature = NULL
          /\ sensor_readings[NthDecodable(j)].fields.device_id = NULL
          /\ historicalData[j].pump_state = "OFF"
          /\ historicalData[j].device_id = DefaultDevice

\* The outcome of the call of controlPump made by the last click
PumpCall == last.v[1]

\* C12: a call of controlPump sends exactly one command to the remote and
\* returns a boolean without throwing; it changes no field of the hook.
C12_OneCommandPerCall ==
    [][last'.op = "handlePumpControl" =>
          /\ commands' = commands + 1
          /\ ~last'.v[1].threw
          /\ UNCHANGED hookState]_vars

LiveListeners == { l \in listeners : l.path[1] = "live_monitoring" }

StatusListeners == { l \in listeners : l.path[1] = "device_status" }

\* C14: once cleanup has run for an unmount no listener of the hook is
\* registered; in every state there are at most one live-reading listener
\* and one device-status listener, both at the paths of the current
\* deviceId.
C14_ListenersReleased ==
    /\ last.op = "Unmount" => listeners = {}
    /\ Cardinality(LiveListeners) <= 1
    /\ Cardinality(StatusListeners) <= 1
    /\ \A l \in listeners : l.path[2] = deviceId

StaleOps ==
    {"StaleLiveDataValue", "StaleLiveDataEmpty", "StaleLiveDataError",
     "StaleDeviceStatusValue", "StaleDeviceStatusEmpty"}

\* C15: after the hook went from one deviceId to another, no callback of a
\* listener of the first runs any more, so none changes currentData,
\* deviceStatus, connected, error or lastUpdate.
C15_NoStaleCallback ==
    [][last'.op \in StaleOps =>
          UNCHANGED <<currentData, deviceStatus, connected, error, lastUpdate>>]_vars

TickFetchOps ==
    {"fetchHistoricalDataOk", "fetchHistoricalDataFail",
     "fetchIrrigationEventsOk", "fetchIrrigationEventsFail"}

\* C16: a tick of the timer starts fetchHistoricalData and
\* fetchIrrigationEvents and nothing else: the tick and the two fetches it
\* started take no snapshot and leave currentData, deviceStatus, connected,
\* lastUpdate and loading as they are.
C16_TickOnlyFetches ==
    /\ [][last'.op = "IntervalTick" =>
             /\ fetch'[0].hist = "pending"
             /\ fetch'[0].events = "pending"
             /\ UNCHANGED <<hookState, refresh>>]_vars
    /\ [][(last'.op \in TickFetchOps /\ last'.p = 0) =>
             /\ UNCHANGED <<currentData, deviceStatus, connected, lastUpdate,
                            loading>>
             /\ \A p \in Invocations : refresh'[p].pc = refresh[p].pc]_vars

\* A fetch of a tick stored the events while the Refresh of the mount had
\* finished and a live reading was shown
C16_Witness ==
    /\ last.op = "fetchIrrigationEventsOk"
    /\ last.p = 0
    /\ irrigationEvents # <<>>
    /\ loading = FALSE
    /\ currentData # NULL
    /\ connected = TRUE

\* C17: a tick starts its fetches only while the view is mounted, and for
\* the current deviceId; there is never more than one timer, and none
\* once the view has unmounted.
C17_TimerCancelled ==
    /\ [][last'.op = "IntervalTick" =>
             /\ lifecycle' = "mounted"
             /\ fetch'[0].device = deviceId']_vars
    /\ [](Cardinality(interval) <= 1)
    /\ [](lifecycle = "unmounted" => interval = {})
    /\ [](lifecycle = "mounted" => interval = {deviceId})

\* A tick for the second device, after the hook went over to it from the
\* first, whose events it still holds
C17_Witness ==
    /\ last.op = "IntervalTick"
    /\ deviceId = OtherDevice
    /\ fetch[0].device = OtherDevice
    /\ irrigationEvents = FetchedEvents(LogOf(DefaultDevice))
    /\ irrigationEvents # <<>>

\* C18: a render with another deviceId leaves the fetches and snapshots
\* in flight as they are, and when one of them resolves its result is
\* stored although it was read for the device before: the events of that
\* device's log, the reading of that device's snapshot.
C18_InFlightNotCancelled ==
    /\ [][last'.op = "ChangeDevice" =>
             /\ \A o \in Owners \ {last'.p} : fetch'[o] = fetch[o]
             /\ \A q \in Invocations \ {last'.p} : refresh'[q].pc = refresh[q].pc]_vars
    /\ [][(last'.op = "fetchIrrigationEventsOk" /\ fetch[last'.p].device # deviceId) =>
             irrigationEvents' = FetchedEvents(LogOf(fetch[last'.p].device))]_vars
    /\ [][(last'.op = "LiveSnapshotValue" /\ fetch[last'.p].device # deviceId) =>
             currentData' = last'.v]_vars

\* The hook is rendered for the second device and holds the events of the
\* first device's log, stored by a fetch that began before the change
C18_Witness ==
    /\ last.op = "fetchIrrigationEventsOk"
    /\ deviceId = OtherDevice
    /\ fetch[last.p].device = DefaultDevice
    /\ irrigationEvents = FetchedEvents(LogOf(DefaultDevice))
    /\ irrigationEvents # FetchedEvents(LogOf(OtherDevice))

\* C19: whenever a push or a snapshot replaces the reading in currentData,
\* the new reading was published no earlier than the one it replaces.
C19_NeverOlder ==
    [][(currentData # NULL /\ currentData' # NULL) =>
          currentData'[1].timestamp >= currentData[1].timestamp]_vars

\* C20: while the deviceId is the one the hook was mounted with, every
\* reading of historicalData is a record of that device and every event of
\* irrigationEvents is a child of that device's log.
C20_OneDevice ==
    /\ \A j \in 1..Len(historicalData) : historicalData[j].device_id = deviceId
    /\ \A j \in 1..Len(irrigationEvents) :
          \E i \in 1..Len(LogOf(deviceId)) : irrigationEvents[j] = LogOf(deviceId)[i]

\* The number a decoded temperature stands for, in tenths of a degree
Tenths(x) == (IF x.negative THEN -1 ELSE 1) * (10 * x.whole + x.tenths)

\* C21: the soil-temperature card of a reading whose fixed-point
\* temperature is t shows t / 10, and for t absent or 0 it shows something
\* other than 0.0 degrees.
C21_DecodeOrNoReading ==
    ShowsReading =>
        LET t == currentData[1].soil_temperature
            x == convertTempFromX10(t)
        IN  IF t = NULL \/ t[1] = 0
            THEN SoilTemperatureCard # Some(toFixed1(Zero))
            ELSE /\ Tenths(x) = t[1]
                 /\ SoilTemperatureCard = Some(toFixed1(x))

\* C22: the status the moisture card shows for root moisture m is Critical
\* iff m < 30, Low iff 30 <= m < 50, Good iff 50 <= m < 70 and Excellent
\* iff m >= 70.
C22_MoistureBuckets ==
    ShowsReading =>
        LET m == currentData[1].moisture_root
            status == getMoistureStatus(m)
        IN  /\ MoistureCard = Some(status)
            /\ status \in {"Critical", "Low", "Good", "Excellent"}
            /\ status = "Critical" <=> m < 30
            /\ status = "Low" <=> (30 <= m /\ m < 50)
            /\ status = "Good" <=> (50 <= m /\ m < 70)
            /\ status = "Excellent" <=> m >= 70

\* The card shows Low for a root moisture of exactly 30
C22_Witness ==
    /\ ShowsReading
    /\ currentData[1].moisture_root = 30
    /\ MoistureCard = Some("Low")

\* C23: the WiFi line shows Unknown with 0 bars for a signal that is absent
\* or 0, and otherwise Excellent (4) if s > -50, Good (3) if
\* -60 < s <= -50, Fair (2) if -70 < s <= -60 and Weak (1) if s <= -70.
C23_WifiBuckets ==
    ShowsReading =>
        LET s == currentData[1].wifi_signal
            w == getWifiStrength(s)
        IN  /\ WifiLine = Some(w)
            /\ IF s = NULL \/ s[1] = 0
               THEN w = [strength |-> "Unknown", bars |-> 0]
               ELSE /\ s[1] > -50 => w = [strength |-> "Excellent", bars |-> 4]
                    /\ (-60 < s[1] /\ s[1] <= -50) =>
                          w = [strength |-> "Good", bars |-> 3]
                    /\ (-70 < s[1] /\ s[1] <= -60) =>
                          w = [strength |-> "Fair", bars |-> 2]
                    /\ s[1] <= -70 => w = [strength |-> "Weak", bars |-> 1]

\* The line shows Good with 3 bars for a signal of exactly -50 dBm
C23_Witness ==
    /\ ShowsReading
    /\ currentData[1].wifi_signal = Some(-50)
    /\ WifiLine = Some([strength |-> "Good", bars |-> 3])

\* The stored readings that are not among the charted ones
NotCharted ==
    { j \in 1..Len(historicalData) :
        \A i \in 1..Len(Charted) : Charted[i] # historicalData[j] }

\* C24: when more than 24 readings are stored, the chart has 24 points and
\* every charted reading is at least as recent as every stored reading
\* that is not charted.
C24_ChartsMostRecent ==
    Len(historicalData) > ChartLimit =>
        /\ Len(formatHistoricalData) = ChartLimit
        /\ \A i \in 1..Len(Charted), j \in NotCharted :
              Charted[i].timestamp >= historicalData[j].timestamp

\* C25: whenever the mounted view has an error stored, it shows the
\* message, and with it the stored reading if there is one and the stored
\* history if there is one.
C25_ShowsLastKnown ==
    (lifecycle = "mounted" /\ error # NULL) =>
        /\ ShowsError
        /\ currentData # NULL => ShowsReading
        /\ historicalData # <<>> => ShowsHistory

\* The Refresh that finished in the last step had every remote operation
\* succeed: both fetches, and both snapshots
AllSucceeded ==
    /\ last.op \in {"StatusSnapshotValue", "StatusSnapshotEmpty"}
    /\ Finished.hist = "ok"
    /\ Finished.events = "ok"

\* The view, with an error stored, has an enabled control whose click
\* calls refreshData (the model has a slot for the call)
RetryOffered ==
    (/\ lifecycle = "mounted"
     /\ error # NULL
     /\ \E p \in Overlapping : ~Active(refresh[p])) =>
        ENABLED (\E p \in Overlapping : ClickRetry(p))

\* C26 as claimed: with an error stored the view offers an enabled control
\* that calls Refresh, Refresh clears error when it starts, and a Refresh
\* in which every remote operation succeeded ends with error null and
\* loading false.
C26_Claimed ==
    /\ RetryOffered
    /\ last.op = "refreshData" => error = NULL
    /\ AllSucceeded => (error = NULL /\ loading = FALSE)

\* C26 amended: as claimed, but such a Refresh ends with error null unless
\* a failure from outside it (a live-subscription failure, a failed
\* operation of another Refresh or of the timer) stored a message after it
\* started and nothing has cleared the message since.
C26_Recoverable ==
    /\ RetryOffered
    /\ last.op = "refreshData" => error = NULL
    /\ AllSucceeded => loading = FALSE
    /\ (AllSucceeded /\ ~Finished.hit) => error = NULL

\* A Refresh started beside another one, which only a click can do, had
\* every operation succeed and finished with no message stored
C26_Witness ==
    /\ AllSucceeded
    /\ last.p = 2
    /\ ~Finished.hit
    /\ error = NULL
    /\ loading = FALSE

\* C28: loading is true in every state in which a Refresh is in flight,
\* also when Refreshes overlap.
C28_LoadingWhileInFlight ==
    (\E p \in Invocations : Active(refresh[p])) => loading = TRUE

\* The steps that store a live reading
StoreOps == {"LiveDataValue", "LiveSnapshotValue", "StaleLiveDataValue"}

\* C27: connected implies that a reading and the time of the last update
\* are stored; connected becomes true only in a step that stores a reading
\* and stamps lastUpdate, and a step that sets currentData to null sets
\* connected to false.
C27_ConnectedHasReading ==
    /\ [](connected => (currentData # NULL /\ lastUpdate # NULL))
    /\ [][(connected' /\ ~connected) =>
             /\ last'.op \in StoreOps
             /\ currentData' = last'.v
             /\ lastUpdate' = Some(now')]_vars
    /\ [][(currentData' = NULL /\ currentData # NULL) => ~connected']_vars

\* A snapshot of a Refresh connected the hook at time 2, before any push
C27_Witness ==
    /\ last.op = "LiveSnapshotValue"
    /\ connected
    /\ currentData = last.v
    /\ lastUpdate = Some(2)

\* C29: a live-reading snapshot that finds no value leaves currentData,
\* connected and lastUpdate as they are, a device-status snapshot that
\* finds no value leaves deviceStatus as it is, and only the callbacks of
\* the live subscriptions set currentData or deviceStatus to null.
C29_EmptySnapshotKeeps ==
    /\ [][last'.op = "LiveSnapshotEmpty" =>
             UNCHANGED <<currentData, connected, lastUpdate>>]_vars
    /\ [][last'.op = "StatusSnapshotEmpty" => UNCHANGED deviceStatus]_vars
    /\ [][(currentData # NULL /\ currentData' = NULL) =>
             last'.op \in {"LiveDataEmpty", "StaleLiveDataEmpty"}]_vars
    /\ [][(deviceStatus # NULL /\ deviceStatus' = NULL) =>
             last'.op \in {"DeviceStatusEmpty", "StaleDeviceStatusEmpty"}]_vars

\* A live-reading snapshot found nothing while a reading pushed earlier
\* and a device status were stored
C29_Witness ==
    /\ last.op = "LiveSnapshotEmpty"
    /\ currentData # NULL
    /\ connected
    /\ lastUpdate # NULL
    /\ deviceStatus # NULL

\* C30: a click on the pump button asks for the opposite of the
\* pump_active flag of the stored reading and changes nothing of the
\* hook's state; without a stored reading nothing is asked for; two clicks
\* in a row ask for the same state.
C30_RequestsOpposite ==
    /\ [](last.op = "handlePumpControl" =>
             /\ currentData # NULL
             /\ last.v[1].state
                   = IF currentData[1].pump_active THEN "OFF" ELSE "ON")
    /\ [][last'.op = "handlePumpControl" =>
             (currentData # NULL /\ UNCHANGED hookState)]_vars
    /\ [][commands' # commands => currentData # NULL]_vars
    /\ [][(last.op = "handlePumpControl" /\ last'.op = "handlePumpControl") =>
             last'.v[1].state = last.v[1].state]_vars

\* The button was clicked a second time in a row while the pump was
\* active: both clicks asked for OFF
C30_Witness ==
    /\ last.op = "handlePumpControl"
    /\ last.p = 1
    /\ currentData # NULL
    /\ currentData[1].pump_active
    /\ last.v[1].state = "OFF"
====
